---- MODULE Spec2Model ----
(***************************************************************************)
(* Key encoding and nibble-level key comparison of the radix trie          *)
(* (src/src/keys.rs): the TrieKey trait and its implementations for the    *)
(* standard types, match_keys and check_keys.                              *)
(*                                                                         *)
(* Two specifications share the module.  Spec draws the arguments of one   *)
(* match_keys call and performs the call.  KeySpec draws a target, a key   *)
(* type and two keys of that type and performs one of encode_bytes,        *)
(* encode or check_keys on them.                                           *)
(***************************************************************************)
EXTENDS Integers, Sequences, FiniteSets

VARIABLES
    start_idx,        \* match_keys: the offset into first
    first,            \* match_keys: the first NibbleVec
    second,           \* match_keys: the second NibbleVec
    overflow_checks,  \* the build: TRUE when arithmetic overflow panics
    pc,               \* "ready" before the match_keys call, "done" after it
    result,           \* what the match_keys call did
    target,           \* the compilation target: byte order and pointer size
    key1,             \* the first key, [ty, val]
    key2,             \* the second key, of the same type
    kcall,            \* which key operation was performed, "none" before it
    out1,             \* the operation's outcome on key1 (or on the pair)
    out2              \* the operation's outcome on key2

matchVars == <<start_idx, first, second, overflow_checks, pc, result>>
keyVars == <<target, key1, key2, kcall, out1, out2>>
vars == <<start_idx, first, second, overflow_checks, pc, result,
          target, key1, key2, kcall, out1, out2>>

(***************************************************************************)
(* Bounds of the model.                                                    *)
(***************************************************************************)
\* Longest NibbleVec handed to match_keys.
MaxLen == 3
\* Longest byte sequence or text used as a key.
MaxKeyLen == 2

\* The nibble values the NibbleVecs are drawn from (a nibble is 0..15).
NibbleSample == {0, 7, 15}

NibbleVecs(n) == UNION {[1..k -> NibbleSample] : k \in 0..n}

(***************************************************************************)
(* KeyMatch and match_keys.                                                *)
(***************************************************************************)
\* usize arithmetic wraps modulo 2^w in a build without overflow checks.
\* w = 16 is the narrowest pointer width Rust targets; on a wider target the
\* wrapped difference is larger still, and only its exceeding every
\* sequence length is observable.
USIZE_MODULUS == 65536

\* The outcome of a call: km is the KeyMatch variant returned, or "panic";
\* idx is the payload of Partial; reads lists the (first, second) nibble
\* indices handed to NibbleVec::get, in order; why names the panic.
Outcome(km, idx, reads, why) ==
    [km |-> km, idx |-> idx, reads |-> reads, why |-> why]

NoResult == Outcome("none", 0, <<>>, "")

\* NibbleVec::get(idx): the nibble at a zero-based index; it panics out of range.
InRange(nv, idx) == idx >= 0 /\ idx < Len(nv)
Get(nv, idx) == nv[idx + 1]

\* A slip: the offset is forgotten and the whole of first is counted.
first_len_whole(start, fst) == Len(fst) % USIZE_MODULUS

\* first.len() - start_idx, when the subtraction does not panic.
first_len(start, fst) == (Len(fst) - start) % USIZE_MODULUS

\* A slip: max in place of min.
min_length_max(fl, sl) == IF fl <= sl THEN sl ELSE fl

\* ::std::cmp::min(first_len, second.len())
min_length(fl, sl) == IF fl <= sl THEN fl ELSE sl

\* A slip: first is read from its beginning, first.get(i).
first_index_no_offset(start, i) == i

\* The index of first read in iteration i: start_idx + i.
first_index(start, i) == start + i

\* A slip: the index is counted from the beginning of first.
partial_index_absolute(start, i) == start + i

\* The payload of the Partial returned in iteration i.
partial_index(start, i) == i

\* A slip: the two prefix variants exchanged.
classify_swapped(x, y) ==
    IF x < y THEN "SecondPrefix"
    ELSE IF x = y THEN "Full"
    ELSE "FirstPrefix"

\* match (first_len, second.len()) { x < y, x == y, _ }
classify(x, y) ==
    IF x < y THEN "FirstPrefix"
    ELSE IF x = y THEN "Full"
    ELSE "SecondPrefix"

\* for i in 0..min_length { if first.get(start_idx + i) != second.get(i) ... }
RECURSIVE compare_loop(_, _, _, _, _, _)
compare_loop(i, ml, start, fst, snd, reads) ==
    IF i >= ml
    THEN Outcome("none", 0, reads, "")
    ELSE LET fi == first_index(start, i)
             rd == Append(reads, <<fi, i>>)
         IN IF ~InRange(fst, fi) \/ ~InRange(snd, i)
            THEN Outcome("panic", 0, rd, "index")
            ELSE IF Get(fst, fi) # Get(snd, i)
                 THEN Outcome("Partial", partial_index(start, i), rd, "")
                 ELSE compare_loop(i + 1, ml, start, fst, snd, rd)

match_keys(checks, start, fst, snd) ==
    IF checks /\ start > Len(fst)
    THEN Outcome("panic", 0, <<>>, "overflow")
    ELSE LET fl == first_len(start, fst)
             walk == compare_loop(0, min_length(fl, Len(snd)), start, fst, snd, <<>>)
         IN IF walk.km # "none"
            THEN walk
            ELSE Outcome(classify(fl, Len(snd)), 0, walk.reads, "")

(***************************************************************************)
(* TrieKey: the key types.  A key is [ty, val]; val is                     *)
(*   - a sequence of bytes for Vec<u8> and &[u8],                          *)
(*   - a sequence of Unicode scalar values for String and &str,            *)
(*   - an integer for u8 and i8,                                           *)
(*   - a sequence of 16-bit limbs, most significant first, for the wider   *)
(*     integers (the value is the sum of limb * 65536^position; the top    *)
(*     limb of a signed type is signed, -32768..32767),                    *)
(*   - a small integer for the user-defined key types.                     *)
(***************************************************************************)
ByteSeqTypes == {"Vec<u8>", "&[u8]"}
TextTypes == {"String", "&str"}
UnsignedWide == {"u16", "u32", "u64", "usize"}
SignedWide == {"i16", "i32", "i64", "isize"}
WideInts == UnsignedWide \cup SignedWide
BuiltinTypes == ByteSeqTypes \cup TextTypes \cup {"u8", "i8"} \cup WideInts

\* Key types outside the crate.  "DefaultOnly" implements TrieKey with an
\* empty body, "EncodeOnly" implements encode alone (the alternative the
\* panic message of the default encode_bytes names), and "Colliding"
\* implements encode_bytes incorrectly, mapping distinct keys to the same
\* bytes (the case the trait's documentation warns of).
UserTypes == {"DefaultOnly", "EncodeOnly", "Colliding"}
KeyTypes == BuiltinTypes \cup UserTypes

\* The types that have an encode_bytes of their own.
OwnEncodeBytes == BuiltinTypes \cup {"Colliding"}
\* The types that have an encode of their own.
OwnEncode == {"EncodeOnly"}

Targets == [endian : {"little", "big"}, ptr_bytes : {4, 8}]

\* size_of::<T>() in bytes.
size_of(t, ty) ==
    CASE ty \in {"u16", "i16"} -> 2
      [] ty \in {"u32", "i32"} -> 4
      [] ty \in {"u64", "i64"} -> 8
      [] ty \in {"usize", "isize"} -> t.ptr_bytes

Reverse(s) == [i \in 1..Len(s) |-> s[Len(s) + 1 - i]]

RECURSIVE Concat(_)
Concat(ss) == IF ss = <<>> THEN <<>> ELSE Head(ss) \o Concat(Tail(ss))

\* An outcome of an encoding or of check_keys: a value, or a panic.
Ok(v) == [ok |-> TRUE, val |-> v]
Panic == [ok |-> FALSE, val |-> <<>>]

(***************************************************************************)
(* The values the keys are drawn from.                                     *)
(***************************************************************************)
ByteSample == {0, 97, 255}
\* 'a', U+0161, U+20AC, U+1F600: one character of each UTF-8 length.
CharSample == {97, 353, 8364, 128512}
U8Sample == {0, 1, 127, 128, 255}
I8Sample == {-128, -127, -1, 0, 1, 127}
LimbSample == {0, 1, 255, 256, 65535}
SignedTopSample == {-32768, -256, -1, 0, 1, 32767}

SeqsUpTo(S, n) == UNION {[1..k -> S] : k \in 0..n}

\* Limb sequences of length n: the lower limbs all alike, or one limb set.
WideSample(n, signed) ==
    LET Top == IF signed THEN SignedTopSample ELSE LimbSample
    IN {s \in [1..n -> Top \cup LimbSample] :
          /\ s[1] \in Top
          /\ \A i \in 2..n : s[i] \in LimbSample
          /\ \/ \A i \in 2..n : s[i] = s[n]
             \/ Cardinality({i \in 1..n : s[i] # 0}) <= 1}

Values(t, ty) ==
    CASE ty \in ByteSeqTypes -> SeqsUpTo(ByteSample, MaxKeyLen)
      [] ty \in TextTypes -> SeqsUpTo(CharSample, MaxKeyLen)
      [] ty = "u8" -> U8Sample
      [] ty = "i8" -> I8Sample
      [] ty \in WideInts -> WideSample(size_of(t, ty) \div 2, ty \in SignedWide)
      [] ty \in UserTypes -> 0..3

(***************************************************************************)
(* Integers in memory.                                                     *)
(***************************************************************************)
\* The two's-complement bytes of a value, least significant first.
to_le_bytes(v) ==
    [j \in 1..(2 * Len(v)) |->
        LET limb == v[Len(v) - ((j - 1) \div 2)]
        IN IF j % 2 = 1 THEN limb % 256 ELSE (limb \div 256) % 256]

\* The value whose two's-complement bytes, least significant first, are b.
from_le_bytes(signed, b) ==
    LET n == Len(b) \div 2
    IN [m \in 1..n |->
          LET k == n - m
              limb == b[2 * k + 1] + 256 * b[2 * k + 2]
          IN IF signed /\ m = 1 /\ limb >= 32768 THEN limb - 65536 ELSE limb]

\* {integer}::swap_bytes
swap_bytes(signed, v) == from_le_bytes(signed, Reverse(to_le_bytes(v)))

\* A slip: to_le in place of to_be.
to_le(t, signed, v) == IF t.endian = "big" THEN swap_bytes(signed, v) ELSE v

\* {integer}::to_be: the value whose memory holds v's bytes big-endian.
to_be(t, signed, v) == IF t.endian = "little" THEN swap_bytes(signed, v) ELSE v

\* The bytes of an integer in memory, at increasing addresses.
memory_bytes(t, x) ==
    IF t.endian = "little" THEN to_le_bytes(x) ELSE Reverse(to_le_bytes(x))

(***************************************************************************)
(* encode_bytes of each implementation.                                    *)
(***************************************************************************)
\* The default method of the trait: panic!("implement this method ...").
default_encode_bytes_empty(val) == Ok(<<>>)

default_encode_bytes(val) == Panic

\* impl TrieKey for Vec<u8>: self.clone()
vec_encode_bytes(val) == Ok(val)

\* impl TrieKey for &[u8]: self.clone().to_vec()
slice_encode_bytes(val) == Ok(val)

\* char::encode_utf8: the UTF-8 bytes of a Unicode scalar value.
utf8(c) ==
    IF c < 128 THEN <<c>>
    ELSE IF c < 2048 THEN <<192 + (c \div 64), 128 + (c % 64)>>
    ELSE IF c < 65536
         THEN <<224 + (c \div 4096), 128 + ((c \div 64) % 64), 128 + (c % 64)>>
         ELSE <<240 + (c \div 262144), 128 + ((c \div 4096) % 64),
                128 + ((c \div 64) % 64), 128 + (c % 64)>>

\* str::as_bytes: the text's UTF-8 representation.
as_bytes(val) == Concat([i \in 1..Len(val) |-> utf8(val[i])])

\* A slip: each character cast to a byte, self.chars().map(|c| c as u8).
text_encode_bytes_cast(val) == Ok([i \in 1..Len(val) |-> val[i] % 256])

\* impl TrieKey for String and for &str: self.as_bytes().encode_bytes()
text_encode_bytes(val) == slice_encode_bytes(as_bytes(val))

\* A slip: the sign bit flipped, to make the bytes sort numerically.
i8_encode_bytes_flipped(val) == Ok(<<(val + 128) % 256>>)

\* impl TrieKey for i8: v.push(*self as u8)
i8_encode_bytes(val) == Ok(<<val % 256>>)

\* impl TrieKey for u8: v.push(*self)
u8_encode_bytes(val) == Ok(<<val>>)

\* BigEndian<T>::from(v): the wrapper holds v.to_be().
big_endian_from(t, signed, v) == to_be(t, signed, v)

\* impl TrieKey for BigEndian<T>: self.as_bytes().to_vec(), the wrapped
\* value's size_of::<T>() bytes as they lie in memory.
big_endian_encode_bytes(t, be) == Ok(memory_bytes(t, be))

\* int_keys!: let be: BigEndian<$t> = From::from(*self); be.encode_bytes()
int_encode_bytes(t, signed, val) ==
    big_endian_encode_bytes(t, big_endian_from(t, signed, val))

\* The incorrect encode_bytes of the user type "Colliding".
colliding_encode_bytes(val) == Ok(<<val % 2>>)

\* TrieKey::encode_bytes, dispatched on the key's type.
encode_bytes(t, k) ==
    CASE k.ty = "Vec<u8>" -> vec_encode_bytes(k.val)
      [] k.ty = "&[u8]" -> slice_encode_bytes(k.val)
      [] k.ty \in TextTypes -> text_encode_bytes(k.val)
      [] k.ty = "i8" -> i8_encode_bytes(k.val)
      [] k.ty = "u8" -> u8_encode_bytes(k.val)
      [] k.ty \in WideInts -> int_encode_bytes(t, k.ty \in SignedWide, k.val)
      [] k.ty = "Colliding" -> colliding_encode_bytes(k.val)
      [] OTHER -> default_encode_bytes(k.val)

\* NibbleVec::from_byte_vec: two nibbles a byte, the high nibble first.
from_byte_vec(bytes) ==
    [i \in 1..(2 * Len(bytes)) |->
        IF i % 2 = 1 THEN bytes[(i + 1) \div 2] \div 16
        ELSE bytes[(i + 1) \div 2] % 16]

\* The encode of the user type "EncodeOnly": one nibble.
user_encode(val) == Ok(<<val>>)

\* The default method: NibbleVec::from_byte_vec(self.encode_bytes())
default_encode(t, k) ==
    LET bytes == encode_bytes(t, k)
    IN IF bytes.ok THEN Ok(from_byte_vec(bytes.val)) ELSE Panic

\* TrieKey::encode, dispatched on the key's type.
encode(t, k) ==
    IF k.ty \in OwnEncode THEN user_encode(k.val) ELSE default_encode(t, k)

\* A slip: the keys compared by their encodings.
check_keys_by_encoding(t, k1, k2) ==
    IF encode(t, k1) # encode(t, k2) THEN Panic ELSE Ok(<<>>)

\* check_keys: if *key1 != *key2 { panic!(...) }
check_keys(t, k1, k2) == IF k1 # k2 THEN Panic ELSE Ok(<<>>)

(***************************************************************************)
(* Idle values of the variables the other specification owns.              *)
(***************************************************************************)
NoKey == [ty |-> "none", val |-> 0]
NoOut == [ok |-> TRUE, val |-> <<>>]
NoTarget == [endian |-> "little", ptr_bytes |-> 8]

KeysIdle ==
    /\ target = NoTarget
    /\ key1 = NoKey
    /\ key2 = NoKey
    /\ kcall = "none"
    /\ out1 = NoOut
    /\ out2 = NoOut

(***************************************************************************)
(* Spec: one call of match_keys.                                           *)
(***************************************************************************)
Init ==
    /\ first \in NibbleVecs(MaxLen)
    /\ second \in NibbleVecs(MaxLen)
    /\ start_idx \in 0..(Len(first) + 1)
    /\ overflow_checks \in BOOLEAN
    /\ pc = "ready"
    /\ result = NoResult
    /\ KeysIdle

MatchKeysCall ==
    /\ pc = "ready"
    /\ result' = match_keys(overflow_checks, start_idx, first, second)
    /\ pc' = "done"
    /\ UNCHANGED <<start_idx, first, second, overflow_checks>>
    /\ UNCHANGED keyVars

Next == MatchKeysCall

Spec == Init /\ [][Next]_vars

(***************************************************************************)
(* KeySpec: one operation on two keys of one type.                         *)
(***************************************************************************)
MatchIdle ==
    /\ start_idx = 0
    /\ first = <<>>
    /\ second = <<>>
    /\ overflow_checks = FALSE
    /\ pc = "idle"
    /\ result = NoResult

KeyInit ==
    /\ target \in Targets
    /\ \E ty \in KeyTypes :
          /\ key1 \in [ty : {ty}, val : Values(target, ty)]
          /\ key2 \in [ty : {ty}, val : Values(target, ty)]
    /\ kcall = "none"
    /\ out1 = NoOut
    /\ out2 = NoOut
    /\ MatchIdle

\* key1.encode_bytes() and key2.encode_bytes()
EncodeBytesCall ==
    /\ kcall = "none"
    /\ kcall' = "encode_bytes"
    /\ out1' = encode_bytes(target, key1)
    /\ out2' = encode_bytes(target, key2)
    /\ UNCHANGED <<target, key1, key2>>
    /\ UNCHANGED matchVars

\* key1.encode() and key2.encode()
EncodeCall ==
    /\ kcall = "none"
    /\ kcall' = "encode"
    /\ out1' = encode(target, key1)
    /\ out2' = encode(target, key2)
    /\ UNCHANGED <<target, key1, key2>>
    /\ UNCHANGED matchVars

\* check_keys(&key1, &key2)
CheckKeysCall ==
    /\ kcall = "none"
    /\ kcall' = "check_keys"
    /\ out1' = check_keys(target, key1, key2)
    /\ out2' = NoOut
    /\ UNCHANGED <<target, key1, key2>>
    /\ UNCHANGED matchVars

KeyNext ==
    \/ EncodeBytesCall
    \/ EncodeCall
    \/ CheckKeysCall

KeySpec == KeyInit /\ [][KeyNext]_vars

(***************************************************************************)
(* Properties of match_keys.  They are stated from the arguments alone:    *)
(* Remaining and Overlap are the lengths of the compared ranges, and       *)
(* Mismatches the positions, counted from start_idx, where they differ.    *)
(***************************************************************************)
Precondition == start_idx <= Len(first)
Remaining == Len(first) - start_idx
Overlap == IF Remaining < Len(second) THEN Remaining ELSE Len(second)
Mismatches == {j \in 0..(Overlap - 1) : first[start_idx + j + 1] # second[j + 1]}
Variants == {"Partial", "FirstPrefix", "SecondPrefix", "Full"}

\* C1: under start_idx <= len(first), match_keys returns Partial(i) exactly
\* when the compared ranges differ somewhere, and then i is the least
\* differing position, counted from start_idx.
C1_PartialIffLeastMismatch ==
    (pc = "done" /\ Precondition) =>
        /\ (result.km = "Partial") <=> (Mismatches # {})
        /\ result.km = "Partial" =>
              /\ result.idx \in Mismatches
              /\ \A k \in Mismatches : result.idx <= k
              /\ \A k \in 0..(result.idx - 1) :
                    first[start_idx + k + 1] = second[k + 1]

C1_Witness ==
    /\ pc = "done"
    /\ Precondition
    /\ start_idx > 0
    /\ result.km = "Partial"
    /\ result.idx > 0

\* C2: when the compared ranges agree everywhere, match_keys returns
\* FirstPrefix, Full or SecondPrefix as the remainder of first is shorter
\* than, as long as, or longer than second, and never Partial.
C2_NoMismatchClassifiedByLength ==
    (pc = "done" /\ Precondition /\ Mismatches = {}) =>
        /\ Remaining < Len(second) => result.km = "FirstPrefix"
        /\ Remaining = Len(second) => result.km = "Full"
        /\ Remaining > Len(second) => result.km = "SecondPrefix"
        /\ result.km # "Partial"

C2_Witness ==
    /\ pc = "done"
    /\ Precondition
    /\ start_idx > 0
    /\ Mismatches = {}
    /\ Len(second) > 0
    /\ Remaining > Len(second)
    /\ result.km = "SecondPrefix"

\* C3: with start_idx = len(first) no nibble is compared, and the result is
\* FirstPrefix for a non-empty second and Full for an empty one.
C3_NothingRemaining ==
    (pc = "done" /\ start_idx = Len(first)) =>
        /\ result.reads = <<>>
        /\ second # <<>> => result.km = "FirstPrefix"
        /\ second = <<>> => result.km = "Full"
        /\ result.km \notin {"Partial", "SecondPrefix"}

C3_Witness ==
    /\ pc = "done"
    /\ start_idx = Len(first)
    /\ first # <<>>
    /\ second # <<>>
    /\ result.reads = <<>>
    /\ result.km = "FirstPrefix"

\* C7: under start_idx <= len(first) the call never panics: the subtraction
\* yields len(first) - start_idx without wrapping, every nibble read is in
\* range of its sequence, and one of the four variants is returned.
C7_AlwaysSucceeds ==
    (pc = "done" /\ Precondition) =>
        /\ result.km \in Variants
        /\ result.why = ""
        /\ first_len(start_idx, first) = Remaining
        /\ \A n \in 1..Len(result.reads) :
              /\ result.reads[n][1] = start_idx + result.reads[n][2]
              /\ result.reads[n][1] < Len(first)
              /\ result.reads[n][2] < Len(second)

C7_Witness ==
    /\ pc = "done"
    /\ Precondition
    /\ overflow_checks
    /\ start_idx > 0
    /\ Len(result.reads) > 1
    /\ result.km \in Variants

\* C10: the call's result is that of match_keys(0, s, second) for s the
\* suffix of first from start_idx; what precedes start_idx has no influence.
Suffix == SubSeq(first, start_idx + 1, Len(first))

C10_SameAsSuffixAtZero ==
    (pc = "done" /\ Precondition) =>
        LET atZero == match_keys(overflow_checks, 0, Suffix, second)
        IN /\ result.km = atZero.km
           /\ result.idx = atZero.idx

C10_Witness ==
    /\ pc = "done"
    /\ Precondition
    /\ start_idx > 0
    /\ second # <<>>
    /\ first[1] # second[1]
    /\ result.km = "Full"

(***************************************************************************)
(* Properties of the encodings and of check_keys.                          *)
(***************************************************************************)
\* Lexicographic order of two sequences of non-negative numbers.
RECURSIVE LexLess(_, _)
LexLess(x, y) ==
    IF y = <<>> THEN FALSE
    ELSE IF x = <<>> THEN TRUE
    ELSE IF Head(x) # Head(y) THEN Head(x) < Head(y)
    ELSE LexLess(Tail(x), Tail(y))

\* Numeric order of two integers of one type, given by their limbs: the
\* most significant limb where they differ decides.
NumLess(a, b) ==
    \E m \in 1..Len(a) :
        /\ a[m] < b[m]
        /\ \A i \in 1..(m - 1) : a[i] = b[i]

\* C4: two distinct keys of a type the crate encodes have distinct
\* encode_bytes.
C4_BuiltinEncodingsInjective ==
    (kcall = "encode_bytes" /\ key1.ty \in BuiltinTypes /\ key1 # key2) =>
        /\ out1.ok
        /\ out2.ok
        /\ out1.val # out2.val

C4_Witness ==
    /\ kcall = "encode_bytes"
    /\ key1.ty = "&str"
    /\ Len(key1.val) < Len(key2.val)
    /\ Len(out1.val) = Len(out2.val)
    /\ out1.val # out2.val

\* C5: an unsigned integer of 16, 32, 64 or pointer-sized bits encodes to
\* its width/8 bytes, most significant first, and a < b implies
\* encode_bytes(a) lexicographically below encode_bytes(b).
C5_UnsignedBigEndianOrdered ==
    (kcall = "encode_bytes" /\ key1.ty \in UnsignedWide) =>
        /\ out1.ok
        /\ out2.ok
        /\ Len(out1.val) = size_of(target, key1.ty)
        /\ Len(out1.val) = 2 * Len(key1.val)
        /\ \A m \in 1..Len(key1.val) :
              key1.val[m] = 256 * out1.val[2 * m - 1] + out1.val[2 * m]
        /\ \A j \in 1..Len(out1.val) : out1.val[j] \in 0..255
        /\ NumLess(key1.val, key2.val) => LexLess(out1.val, out2.val)

C5_Witness ==
    /\ kcall = "encode_bytes"
    /\ key1.ty = "usize"
    /\ target.endian = "little"
    /\ target.ptr_bytes = 8
    /\ key1.val = <<0, 0, 0, 256>>
    /\ key2.val = <<0, 0, 1, 0>>
    /\ out1.val = <<0, 0, 0, 0, 0, 0, 1, 0>>
    /\ out2.val = <<0, 0, 0, 0, 0, 1, 0, 0>>

\* C6: check_keys panics exactly when the two keys differ by value,
\* whatever their encodings; on equal keys it returns the unit value.
C6_CheckKeysPanicsIffUnequal ==
    (kcall = "check_keys") =>
        /\ ~out1.ok <=> key1 # key2
        /\ key1 = key2 => out1 = Ok(<<>>)

C6_Witness ==
    /\ kcall = "check_keys"
    /\ key1.ty = "Colliding"
    /\ key1 # key2
    /\ encode(target, key1) = encode(target, key2)
    /\ ~out1.ok

\* C8 as claimed: a key type without an encode_bytes of its own gets a
\* panic from encode_bytes and from encode alike, never an encoding.
C8_NoOwnEncodeBytesAlwaysFails ==
    (kcall \in {"encode_bytes", "encode"} /\ key1.ty \notin OwnEncodeBytes) =>
        ~out1.ok

\* C8 amended: without an encode_bytes of its own a key type gets a panic
\* from encode_bytes; from encode it gets a panic when it has no encode of
\* its own either, and otherwise what its own encode returns.
C8_DefaultsFail ==
    (key1.ty \notin OwnEncodeBytes) =>
        /\ kcall = "encode_bytes" => ~out1.ok
        /\ (kcall = "encode" /\ key1.ty \notin OwnEncode) => ~out1.ok
        /\ (kcall = "encode" /\ key1.ty \in OwnEncode) =>
              out1 = user_encode(key1.val)

C8_Witness ==
    /\ kcall = "encode"
    /\ key1.ty = "DefaultOnly"
    /\ ~out1.ok
    /\ ~out2.ok

\* C9: an i8 encodes to the one byte of its two's-complement bit pattern,
\* with no sign-bit flip, so every negative value encodes above every
\* non-negative one.
C9_I8BitPattern ==
    (kcall = "encode_bytes" /\ key1.ty = "i8") =>
        /\ out1.ok
        /\ Len(out1.val) = 1
        /\ out1.val[1] \in 0..255
        /\ key1.val >= 0 => out1.val[1] = key1.val
        /\ key1.val < 0 => out1.val[1] = key1.val + 256
        /\ (key1.val < 0 /\ key2.val >= 0) => out1.val[1] > out2.val[1]

C9_Witness ==
    /\ kcall = "encode_bytes"
    /\ key1.ty = "i8"
    /\ key1.val = -1
    /\ key2.val = 1
    /\ out1.val = <<255>>
    /\ out2.val = <<1>>

====
